---- MODULE Spec2Model ----
(***************************************************************************)
(* TempHist main.py: a FastAPI application with two handlers, root and     *)
(* get_weather.  get_weather calls fetch_weather, which is wrapped by      *)
(* functools.lru_cache(maxsize=500) and asks the upstream weather provider *)
(* with requests.get on a miss.  FastAPI runs plain "def" handlers on a    *)
(* pool of worker threads, so several lookups can be in flight at once;    *)
(* the lru_cache wrapper runs its lookup and its update each as one        *)
(* indivisible step, and the call of the wrapped function lies between.    *)
(***************************************************************************)
EXTENDS Integers, Sequences, FiniteSets, TLC

\* The capacity of the cache.  The source says lru_cache(maxsize=500); the
\* model scales it down so that a full cache and evictions are reachable.
maxsize == 2

\* The number of worker threads of the hosting layer that serve requests.
NumWorkers == 2

\* The (location, date) path parameters offered to the endpoint: one more
\* pair than the cache can hold, two of them differing only in letter case.
PairList ==
    << <<"Boston", "2024-01-01">>, <<"boston", "2024-01-01">>,
       <<"Boston", "2024-01-02">>, <<"boston", "2024-01-02">>,
       <<"Paris", "2024-01-01">> >>

Requests ==
    {PairList[i] : i \in 1..(IF maxsize + 1 < Len(PairList) THEN maxsize + 1 ELSE Len(PairList))}

----------------------------------------------------------------------------
(* The upstream's HTTP responses, as the requests library presents them.    *)

\* Header values are sequences of text chunks, so that the substring test
\* of the source is a test on contiguous chunks.
JsonType == <<"application/json">>
JsonCharsetType == <<"application/json", "; charset=utf-8">>
HtmlType == <<"text/html">>

BodyTemp == "{\"temp\": 15}"
BodyTemp20 == "{\"temp\": 20}"
BodyNotFound == "Not found"

Response(status_code, headers, text) ==
    [status_code |-> status_code, headers |-> headers, text |-> text]

\* The responses the upstream gives while lookups interleave: a JSON payload,
\* a body labelled JSON that is no JSON, and a 404.
Responses ==
    { Response(200, {<<"Content-Type", JsonCharsetType>>}, BodyTemp),
      Response(200, {<<"Content-Type", JsonType>>}, BodyNotFound),
      Response(404, {<<"Content-Type", JsonType>>}, BodyNotFound) }

\* Every combination of status, Content-Type (or none) and body, for the
\* conversion of one response into a result.
AllResponses ==
    { Response(status_code, headers, text) :
        status_code \in {200, 404, 500},
        headers \in {{}} \cup {{<<"Content-Type", ct>>} : ct \in {JsonType, JsonCharsetType, HtmlType}},
        text \in {BodyTemp, BodyTemp20, BodyNotFound} }

NoResponse == Response(0, {}, "")

\* response.headers.get(name, default)
headers_get(headers, name, default) ==
    IF \E h \in headers : h[1] = name
    THEN (CHOOSE h \in headers : h[1] = name)[2]
    ELSE default

\* needle in hay, for texts given as sequences of chunks
Contains(needle, hay) ==
    \E i \in 1..(Len(hay) - Len(needle) + 1) :
        SubSeq(hay, i, i + Len(needle) - 1) = needle

NoValue == [none |-> TRUE]

\* response.json(): the body parsed as JSON, or the parser's exception.
response_json(response) ==
    IF response.text = BodyTemp
    THEN [raised |-> FALSE, value |-> [temp |-> 15]]
    ELSE IF response.text = BodyTemp20
         THEN [raised |-> FALSE, value |-> [temp |-> 20]]
         ELSE [raised |-> TRUE, value |-> NoValue]

\* fetch_weather without its test of the Content-Type header.
fetch_weather_no_content_type(response) ==
    IF response.status_code = 200
    THEN response_json(response)
    ELSE [raised |-> FALSE,
          value |-> [error |-> response.text, status |-> response.status_code]]

\* The body of fetch_weather once requests.get has returned a response.
fetch_weather(response) ==
    IF /\ response.status_code = 200
       /\ Contains(<<"application/json">>, headers_get(response.headers, "Content-Type", << >>))
    THEN response_json(response)
    ELSE [raised |-> FALSE,
          value |-> [error |-> response.text, status |-> response.status_code]]

----------------------------------------------------------------------------
(* functools.lru_cache: a dictionary from keys to links and the links in   *)
(* order of use, oldest first.  The model keeps the links as a sequence of *)
(* [key, result] records; the dictionary is the lookup by key.             *)

Lower(text) == IF text = "Boston" THEN "boston" ELSE IF text = "Paris" THEN "paris" ELSE text

\* A key that folds the case of the location.
make_key_lower(location, date) == <<Lower(location), date>>

\* The key of a call: the tuple of its arguments, as they are.
make_key(location, date) == <<location, date>>

CacheKeys(c) == {c[i].key : i \in 1..Len(c)}

\* A dictionary lookup that never finds the key (no memoisation).
cache_get_never(c, key) == 0

\* The position of the link of key, or 0 when the dictionary has none.
cache_get(c, key) ==
    IF \E i \in 1..Len(c) : c[i].key = key
    THEN CHOOSE i \in 1..Len(c) : c[i].key = key
    ELSE 0

Remove(s, i) == SubSeq(s, 1, i - 1) \o SubSeq(s, i + 1, Len(s))

\* A hit that leaves the link where it is (eviction in insertion order).
lru_hit_nomove(c, i) == c

\* A hit that unlinks the link and does not put it back.
lru_hit_drop(c, i) == Remove(c, i)

\* A hit that moves the link to the least-recently-used end.
lru_hit_front(c, i) == <<c[i]>> \o Remove(c, i)

\* A hit: the link is moved to the most-recently-used end.
lru_hit(c, i) == Append(Remove(c, i), c[i])

\* An update that does not look whether the key was added meanwhile.
lru_update_norecheck(c, key, result) ==
    IF Len(c) < maxsize
    THEN Append(c, [key |-> key, result |-> result])
    ELSE Append(Tail(c), [key |-> key, result |-> result])

\* An update that overwrites the result of a key added meanwhile.
lru_update_overwrite(c, key, result) ==
    IF cache_get(c, key) # 0
    THEN [c EXCEPT ![cache_get(c, key)].result = result]
    ELSE IF Len(c) < maxsize
         THEN Append(c, [key |-> key, result |-> result])
         ELSE Append(Tail(c), [key |-> key, result |-> result])

\* An update that stores nothing.
lru_update_nostore(c, key, result) == c

\* An update that puts the later result of a key added meanwhile in place
\* of the earlier one, as its most recent link.
lru_update_replace(c, key, result) ==
    IF cache_get(c, key) # 0
    THEN Append(Remove(c, cache_get(c, key)), [key |-> key, result |-> result])
    ELSE IF Len(c) < maxsize
         THEN Append(c, [key |-> key, result |-> result])
         ELSE Append(Tail(c), [key |-> key, result |-> result])

\* The wrapper after the wrapped function returned result: the key may have
\* been added meanwhile (nothing to do); else a new link, in place of the
\* oldest link when the cache is full.
lru_update(c, key, result) ==
    IF cache_get(c, key) # 0
    THEN c
    ELSE IF Len(c) < maxsize
         THEN Append(c, [key |-> key, result |-> result])
         ELSE Append(Tail(c), [key |-> key, result |-> result])

----------------------------------------------------------------------------
VARIABLES
    cache,    \* the links of the lru_cache of fetch_weather, oldest use first
    pending,  \* per (location, date): the workers waiting in requests.get for its URL
    last,     \* the most recent step of a handler and what it gave its caller
    used,     \* history: the cached pairs in order of their last use (insertion or hit)
    stored,   \* history: per requested pair, the value its inserting lookup returned
    seen      \* history: the requested pairs some lookup has returned a value for

vars == <<cache, pending, last, used, stored, seen>>

NotStored == [absent |-> TRUE]

Message == [message |-> "API is running"]

Event(event, location, date, response, value, status) ==
    [event |-> event, location |-> location, date |-> date, response |-> response,
     value |-> value, status |-> status]

RECURSIVE Sum(_, _)
Sum(f, S) == IF S = {} THEN 0 ELSE LET x == CHOOSE y \in S : TRUE IN f[x] + Sum(f, S \ {x})

\* The workers that are inside a lookup; the others are free to take a request.
Busy == Sum(pending, Requests)

\* A handler that answers an error record with the upstream's status.
get_weather_status_upstream(out) ==
    IF out.raised THEN 500
    ELSE IF "status" \in DOMAIN out.value THEN out.value.status ELSE 200

\* The status the hosting layer answers with: 200 with the returned value as
\* the body, a server error when an exception leaves get_weather.
get_weather_status(out) == IF out.raised THEN 500 ELSE 200

Init ==
    /\ cache = << >>
    /\ pending = [p \in Requests |-> 0]
    /\ last = Event("init", "", "", NoResponse, NoValue, 0)
    /\ used = << >>
    /\ stored = [p \in Requests |-> NotStored]
    /\ seen = {}

\* The history of uses after a step: pair p was used by this step (or no
\* pair, when p is not cached afterwards); evicted pairs are dropped.
SeqWithout(s, x) == SelectSeq(s, LAMBDA y : y # x)

UsedAfter(p, touched, c) ==
    LET moved == IF touched THEN Append(SeqWithout(used, p), p) ELSE used
    IN  SelectSeq(moved, LAMBDA y : y \in CacheKeys(c))

StoredAfter(p, inserted, value, c) ==
    [q \in Requests |->
        IF q = p /\ inserted THEN value
        ELSE IF q \in CacheKeys(c) THEN stored[q] ELSE NotStored]

\* A root handler that also clears the cache.
root_clear ==
    /\ last' = Event("root", "", "", NoResponse, Message, 200)
    /\ cache' = << >>
    /\ UNCHANGED <<pending, used, stored, seen>>

\* GET /
root ==
    /\ last' = Event("root", "", "", NoResponse, Message, 200)
    /\ UNCHANGED <<cache, pending, used, stored, seen>>

\* A handler that gives up on a miss instead of waiting in requests.get: it
\* answers a gateway timeout at once and no call is left in flight.
get_weather_timeout(location, date) ==
    /\ Busy < NumWorkers
    /\ LET key == make_key(location, date)
           i == cache_get(cache, key)
       IN  IF i # 0
           THEN /\ cache' = lru_hit(cache, i)
                /\ last' = Event("hit", location, date, NoResponse, cache[i].result, 200)
                /\ used' = UsedAfter(<<location, date>>, TRUE, cache')
                /\ stored' = StoredAfter(<<location, date>>, FALSE, NoValue, cache')
                /\ seen' = seen \cup {<<location, date>>}
           ELSE /\ cache' = cache
                /\ last' = Event("miss", location, date, NoResponse, NoValue, 504)
                /\ UNCHANGED <<used, stored, seen>>
    /\ pending' = pending

\* GET /weather/{location}/{date} on a free worker: get_weather calls the
\* cached fetch_weather.  On a hit the stored result is returned at once; on
\* a miss fetch_weather builds the URL and waits in requests.get.
get_weather(location, date) ==
    /\ Busy < NumWorkers
    /\ LET key == make_key(location, date)
           i == cache_get(cache, key)
       IN  IF i # 0
           THEN /\ cache' = lru_hit(cache, i)
                /\ pending' = pending
                /\ last' = Event("hit", location, date, NoResponse, cache[i].result,
                                 get_weather_status([raised |-> FALSE, value |-> cache[i].result]))
                /\ used' = UsedAfter(<<location, date>>, TRUE, cache')
                /\ stored' = StoredAfter(<<location, date>>, FALSE, NoValue, cache')
                /\ seen' = seen \cup {<<location, date>>}
           ELSE /\ cache' = cache
                /\ pending' = [pending EXCEPT ![<<location, date>>] = @ + 1]
                /\ last' = Event("miss", location, date, NoResponse, NoValue, 0)
                /\ UNCHANGED <<used, stored, seen>>

\* requests.get returns the upstream's response to a worker waiting for
\* (location, date): fetch_weather finishes, the wrapper stores the result,
\* get_weather returns it.  An exception of response.json() leaves
\* fetch_weather and get_weather, and the hosting layer answers 500.
requests_get_returns(location, date, response) ==
    /\ pending[<<location, date>>] > 0
    /\ LET key == make_key(location, date)
           out == fetch_weather(response)
       IN  /\ cache' = IF out.raised THEN cache ELSE lru_update(cache, key, out.value)
           /\ last' = Event(IF out.raised THEN "raise" ELSE "return", location, date, response,
                            out.value, get_weather_status(out))
           /\ used' = UsedAfter(<<location, date>>, cache' # cache, cache')
           /\ stored' = StoredAfter(<<location, date>>, cache' # cache, out.value, cache')
           /\ seen' = IF out.raised THEN seen ELSE seen \cup {<<location, date>>}
    /\ pending' = [pending EXCEPT ![<<location, date>>] = @ - 1]

\* A transport failure that is caught, turned into an error record and
\* returned through the wrapper, which stores it.
requests_get_raises_cached(location, date) ==
    /\ pending[<<location, date>>] > 0
    /\ LET value == [error |-> "", status |-> 0]
       IN  /\ cache' = lru_update(cache, make_key(location, date), value)
           /\ last' = Event("return", location, date, NoResponse, value, 200)
           /\ used' = UsedAfter(<<location, date>>, cache' # cache, cache')
           /\ stored' = StoredAfter(<<location, date>>, cache' # cache, value, cache')
           /\ seen' = seen \cup {<<location, date>>}
    /\ pending' = [pending EXCEPT ![<<location, date>>] = @ - 1]

\* requests.get raises (connection refused, DNS, timeout): the exception
\* leaves fetch_weather and get_weather; the cache is not touched.
requests_get_raises(location, date) ==
    /\ pending[<<location, date>>] > 0
    /\ last' = Event("raise", location, date, NoResponse, NoValue,
                     get_weather_status([raised |-> TRUE, value |-> NoValue]))
    /\ pending' = [pending EXCEPT ![<<location, date>>] = @ - 1]
    /\ UNCHANGED <<cache, used, stored, seen>>

Next ==
    \/ root
    \/ \E p \in Requests : get_weather(p[1], p[2])
    \/ \E p \in Requests : requests_get_raises(p[1], p[2])
    \/ \E p \in Requests, response \in Responses : requests_get_returns(p[1], p[2], response)

Spec == Init /\ [][Next]_vars

\* The upstream call of a lookup of pair p ends: requests.get returns a
\* response or raises.
UpstreamEnds(p) ==
    \/ requests_get_raises(p[1], p[2])
    \/ \E response \in Responses : requests_get_returns(p[1], p[2], response)

\* The program with an upstream that eventually answers every request (or
\* whose transport eventually fails): requests.get is called without a
\* timeout, so a waiting worker goes on exactly when its call ends.
SpecLive == Init /\ [][Next]_vars /\ \A p \in Requests : WF_vars(UpstreamEnds(p))

\* One lookup waiting in requests.get with the cache still empty, and every
\* response the upstream can give it.
InitFetch ==
    \E q \in Requests :
        /\ cache = << >>
        /\ pending = [p \in Requests |-> IF p = q THEN 1 ELSE 0]
        /\ last = Event("miss", q[1], q[2], NoResponse, NoValue, 0)
        /\ used = << >>
        /\ stored = [p \in Requests |-> NotStored]
        /\ seen = {}

NextFetch ==
    \E p \in Requests, response \in AllResponses : requests_get_returns(p[1], p[2], response)

SpecFetch == InitFetch /\ [][NextFetch]_vars

----------------------------------------------------------------------------
(* Properties.                                                             *)

LastPair == <<last.location, last.date>>

\* The result stored for pair p in cache c.
ResultOf(c, p) == c[CHOOSE i \in 1..Len(c) : c[i].key = p].result

Payload == [temp |-> 15]
NotFoundRecord == [error |-> BodyNotFound, status |-> 404]

\* The step is a lookup of pair p: get_weather is called with it.
LookupStep(p) ==
    /\ last'.event \in {"hit", "miss"}
    /\ <<last'.location, last'.date>> = p

\* The step issues exactly one upstream request, for pair p, and no other.
IssuesOne(p) == pending' = [pending EXCEPT ![p] = @ + 1]

\* The step ends exactly one upstream request, the one for pair p, and issues none.
EndsOne(p) == pending' = [pending EXCEPT ![p] = @ - 1]

\* C1 as stated: in every sequence of lookups, any lookup of a pair for which
\* an earlier lookup has returned a value is a cache hit: it issues no
\* upstream call and returns the value that earlier lookup returned.
C1_SecondLookupAlwaysHit ==
    [][\A p \in Requests :
         (p \in seen /\ LookupStep(p)) =>
            /\ last'.event = "hit"
            /\ pending' = pending
            /\ last'.value = stored[p]]_vars

\* C1 amended: a lookup of a pair that begins while the pair is cached (an
\* earlier lookup of it stored its value and the pair was not evicted since)
\* is a cache hit: it issues no upstream call, returns the value that the
\* storing lookup returned, and leaves the set of cached pairs as it is.
C1_LookupWhileCachedHits ==
    [][\A p \in Requests :
         (stored[p] # NotStored /\ LookupStep(p)) =>
            /\ last'.event = "hit"
            /\ pending' = pending
            /\ last'.value = stored[p]
            /\ CacheKeys(cache') = CacheKeys(cache)]_vars

\* A hit on a full cache, after some other pair has been evicted.
C1_Witness ==
    /\ last.event = "hit"
    /\ last.value = stored[LastPair]
    /\ Len(cache) = maxsize
    /\ seen \ CacheKeys(cache) # {}

\* C2: in every reachable state, also with lookups interleaved, the cache
\* holds at most maxsize links and no two links have the same key.
C2_BoundedDistinctKeys ==
    /\ Len(cache) <= maxsize
    /\ \A i, j \in 1..Len(cache) : i # j => cache[i].key # cache[j].key

\* A lookup that missed together with another lookup of the same pair has
\* returned after the other one stored its result, with the cache full.
C2_Witness ==
    /\ Len(cache) = maxsize
    /\ last.event = "return"
    /\ LastPair \in CacheKeys(cache)
    /\ ResultOf(cache, LastPair) # last.value
    /\ Busy > 0

\* C3: when the result of a lookup that missed is stored for a new key while
\* the cache holds maxsize links, exactly one link is evicted, the one whose
\* last use (insertion or hit) is the oldest; every other link stays, with
\* its result unchanged, and the new key is stored with the returned value.
C3_EvictsLeastRecentlyUsed ==
    [][(/\ last'.event = "return"
        /\ <<last'.location, last'.date>> \notin CacheKeys(cache)
        /\ Len(cache) = maxsize) =>
           LET p == <<last'.location, last'.date>>
               lru == used[1]
           IN  /\ lru \in CacheKeys(cache)
               /\ CacheKeys(cache') = (CacheKeys(cache) \ {lru}) \cup {p}
               /\ Len(cache') = maxsize
               /\ \A k \in CacheKeys(cache) \ {lru} : ResultOf(cache', k) = ResultOf(cache, k)
               /\ ResultOf(cache', p) = last'.value]_vars

\* A new pair has just been stored in a full cache and a pair seen before is
\* no longer cached, while the pair that was stored first still is.
C3_Witness ==
    /\ last.event = "return"
    /\ Len(cache) = maxsize
    /\ cache[Len(cache)].key = LastPair
    /\ cache[Len(cache)].result = last.value
    /\ seen \ CacheKeys(cache) # {}
    /\ cache[1].key = PairList[1]
    /\ PairList[2] \notin CacheKeys(cache)

\* The response is a 200 whose Content-Type header contains application/json.
LabelledJson(r) ==
    /\ r.status_code = 200
    /\ \/ <<"Content-Type", JsonType>> \in r.headers
       \/ <<"Content-Type", JsonCharsetType>> \in r.headers

\* C4: the result of a lookup that missed is determined by the upstream's
\* response: a 200 labelled JSON gives the parsed body ({"temp": 15} gives
\* the mapping temp -> 15); every other response (another status, or a 200
\* with a missing or a non-JSON Content-Type) gives the error record of the
\* raw body text and the status code.
C4_ResultByResponse ==
    last.response # NoResponse =>
        LET r == last.response
        IN  /\ (LabelledJson(r) /\ r.text = BodyTemp) =>
                   (last.event = "return" /\ last.value = [temp |-> 15])
            /\ (LabelledJson(r) /\ r.text = BodyTemp20) =>
                   (last.event = "return" /\ last.value = [temp |-> 20])
            /\ ~LabelledJson(r) =>
                   (last.event = "return" /\ last.value = [error |-> r.text, status |-> r.status_code])

\* 200, application/json and {"temp": 15} have given the payload, which is cached.
C4_Witness ==
    /\ last.event = "return"
    /\ last.response = Response(200, {<<"Content-Type", JsonType>>}, BodyTemp)
    /\ last.value = Payload
    /\ cache = <<[key |-> LastPair, result |-> Payload]>>

\* C5: for every HTTP response the upstream delivers, the lookup returns a
\* value (a payload or an error record) and raises nothing.
C5_NeverRaises ==
    last.response # NoResponse => (last.event = "return" /\ last.value # NoValue)

\* C6 as stated: every GET /weather request that has been answered was
\* answered with status 200.
C6_Always200 ==
    last.event \in {"hit", "return", "raise"} => last.status = 200

\* C6 amended: a GET /weather request is answered with status 200 exactly
\* when its lookup returns a value, a payload or an error record alike, so
\* that an upstream failure that became an error record shows only in the
\* body; when an exception leaves the lookup (the upstream call failed in
\* transport, or a 200 labelled JSON had a body that is no JSON) the answer
\* is the hosting layer's server error.
C6_200IffLookupReturns ==
    /\ last.event \in {"hit", "return"} => (last.status = 200 /\ last.value # NoValue)
    /\ last.event = "raise" => (last.status = 500 /\ last.value = NoValue)

\* A 404 of the upstream has been answered with 200 and the error record.
C6_Witness ==
    /\ last.event = "return"
    /\ last.response.status_code = 404
    /\ last.value = NotFoundRecord
    /\ last.status = 200

\* C7: while a pair stays cached its stored value is never replaced, and a
\* lookup of the pair that begins while it is cached returns that stored
\* value, error records included, whatever the upstream answers meanwhile.
C7_StoredValueKept ==
    [][/\ \A p \in CacheKeys(cache) \cap CacheKeys(cache') :
             ResultOf(cache', p) = ResultOf(cache, p)
       /\ \A p \in CacheKeys(cache) :
             LookupStep(p) => (last'.event = "hit" /\ last'.value = ResultOf(cache, p))]_vars

\* A hit has returned a cached error record while the upstream's payload for
\* another pair is cached too.
C7_Witness ==
    /\ last.event = "hit"
    /\ last.value = NotFoundRecord
    /\ \E q \in CacheKeys(cache) : q # LastPair /\ ResultOf(cache, q) = Payload

\* C8 as stated: a lookup that hits issues no upstream request; a lookup
\* that misses issues exactly one, and when it ends the key is stored in the
\* cache; no step of a lookup issues a further request.
C8_EveryMissStores ==
    [][/\ last'.event = "hit" => pending' = pending
       /\ last'.event = "miss" => (IssuesOne(<<last'.location, last'.date>>) /\ cache' = cache)
       /\ last'.event \in {"return", "raise"} =>
             /\ EndsOne(<<last'.location, last'.date>>)
             /\ <<last'.location, last'.date>> \in CacheKeys(cache')]_vars

\* C8 amended: a lookup that hits issues no upstream request; a lookup that
\* misses issues exactly one and never a second; when it returns a value the
\* key is stored in the cache, and when an exception leaves it (transport
\* failure, or a body labelled JSON that is no JSON) the cache is unchanged.
C8_MissStoresUnlessRaised ==
    [][/\ last'.event = "hit" => pending' = pending
       /\ last'.event = "miss" => (IssuesOne(<<last'.location, last'.date>>) /\ cache' = cache)
       /\ last'.event = "return" =>
             /\ EndsOne(<<last'.location, last'.date>>)
             /\ <<last'.location, last'.date>> \in CacheKeys(cache')
       /\ last'.event = "raise" =>
             /\ EndsOne(<<last'.location, last'.date>>)
             /\ cache' = cache]_vars

\* A miss has returned and stored its value while another lookup, of another
\* pair, still waits for the upstream.
C8_Witness ==
    /\ last.event = "return"
    /\ LastPair \in CacheKeys(cache)
    /\ ResultOf(cache, LastPair) = last.value
    /\ \E q \in Requests : q # LastPair /\ pending[q] = 1 /\ q \notin CacheKeys(cache)

\* C9: keys are the pairs as given: every link is stored under exactly the
\* pair whose lookup produced it, a lookup of a pair that is not itself
\* stored misses and issues its own upstream request even when a pair that
\* differs only in case is cached, and a hit returns the result of the link
\* of exactly its own pair.
C9_ExactKeys ==
    [][/\ \A i \in 1..Len(cache') :
             /\ cache'[i].key \in Requests
             /\ stored'[cache'[i].key] = cache'[i].result
       /\ \A p \in Requests :
             (LookupStep(p) /\ stored[p] = NotStored) =>
                 (last'.event = "miss" /\ IssuesOne(p))
       /\ last'.event = "hit" =>
             /\ <<last'.location, last'.date>> \in CacheKeys(cache)
             /\ last'.value = ResultOf(cache, <<last'.location, last'.date>>)]_vars

\* Boston and boston of the same date are both cached, with different
\* results, and a hit on Boston has returned Boston's.
C9_Witness ==
    /\ {PairList[1], PairList[2]} \subseteq CacheKeys(cache)
    /\ ResultOf(cache, PairList[1]) # ResultOf(cache, PairList[2])
    /\ last.event = "hit"
    /\ LastPair = PairList[1]
    /\ last.value = ResultOf(cache, PairList[1])

\* C10: GET / can be served in every state; it returns the message
\* "API is running" with status 200, issues no upstream request and leaves
\* the cache, its order of use included, as it is.
C10_RootFrame ==
    [][/\ ENABLED root
       /\ last'.event = "root" =>
             /\ last'.value = [message |-> "API is running"]
             /\ last'.status = 200
             /\ cache' = cache
             /\ pending' = pending]_vars

\* GET / has been served with a full cache and a lookup in flight.
C10_Witness ==
    /\ last.event = "root"
    /\ last.value = Message
    /\ Len(cache) = maxsize
    /\ Busy > 0

\* C11: no step removes a link except the eviction that comes with storing
\* a new key in a full cache: the number of cached keys never decreases,
\* once it is maxsize it stays maxsize, and a key leaves the cache only in
\* a step that stores a new key while the cache is full.
C11_NeverShrinks ==
    [][/\ Cardinality(CacheKeys(cache')) >= Cardinality(CacheKeys(cache))
       /\ Len(cache') >= Len(cache)
       /\ Cardinality(CacheKeys(cache)) = maxsize => Cardinality(CacheKeys(cache')) = maxsize
       /\ \A k \in CacheKeys(cache) \ CacheKeys(cache') :
             /\ Len(cache) = maxsize
             /\ last'.event = "return"
             /\ <<last'.location, last'.date>> \in CacheKeys(cache') \ CacheKeys(cache)]_vars

\* The cache is full, a pair has been evicted before, and a lookup has just
\* ended with an exception, which removed nothing.
C11_Witness ==
    /\ Cardinality(CacheKeys(cache)) = maxsize
    /\ Cardinality(seen) > maxsize
    /\ last.event = "raise"
    /\ LastPair \notin CacheKeys(cache)

\* C12: lookups of one absent key are not merged: a lookup that begins while
\* another lookup of the key waits for the upstream and the key is not
\* cached misses too and issues its own request; the one that completes
\* second finds the key stored and leaves the cache as it is (one link for
\* the key, with the result of the first), and gets the result of its own
\* upstream answer, which may differ from the stored one.
C12_ConcurrentMisses ==
    [][/\ \A p \in Requests :
             (LookupStep(p) /\ pending[p] > 0 /\ p \notin CacheKeys(cache)) =>
                 (last'.event = "miss" /\ pending'[p] = pending[p] + 1)
       /\ (last'.event = "return" /\ <<last'.location, last'.date>> \in CacheKeys(cache)) =>
             /\ cache' = cache
             /\ Cardinality({i \in 1..Len(cache') :
                               cache'[i].key = <<last'.location, last'.date>>}) = 1
             /\ last'.response.status_code = 200 => last'.value = Payload
             /\ last'.response.status_code = 404 => last'.value = NotFoundRecord]_vars

\* Two lookups of one pair, and no other lookup that returned: both have
\* completed, the cache holds the one link of the first, and the second
\* has returned another value.
C12_Witness ==
    /\ last.event = "return"
    /\ seen = {LastPair}
    /\ Len(cache) = 1
    /\ cache[1].key = LastPair
    /\ cache[1].result # last.value
    /\ Busy = 0

\* The step is a transport failure of the upstream call of a lookup: the
\* lookup ends and no HTTP response has come.
TransportFailureStep ==
    /\ \E p \in Requests : pending'[p] < pending[p]
    /\ last'.response = NoResponse

\* The last step was a transport failure that left get_weather as an exception.
AfterTransportFailure == last.event = "raise" /\ last.response = NoResponse

\* C13 as stated: a transport failure of the upstream call leaves the lookup
\* as a fault, not as an error record, and leaves the cache as it is; the
\* next lookup of the same key misses again and issues a new upstream call.
C13_NextLookupMisses ==
    [][/\ TransportFailureStep =>
             /\ last'.event = "raise"
             /\ last'.value = NoValue
             /\ cache' = cache
             /\ EndsOne(<<last'.location, last'.date>>)
       /\ (AfterTransportFailure /\ LookupStep(LastPair)) =>
             (last'.event = "miss" /\ IssuesOne(LastPair))]_vars

\* C13 amended: a transport failure of the upstream call leaves the lookup
\* as a fault, not as an error record, and leaves the cache as it is
\* (nothing stored, nothing evicted, the order of use unchanged); the next
\* lookup of the same key misses again and issues a new upstream call,
\* unless another lookup of that key has stored its result meanwhile.
C13_FailureNotCached ==
    [][/\ TransportFailureStep =>
             /\ last'.event = "raise"
             /\ last'.value = NoValue
             /\ cache' = cache
             /\ EndsOne(<<last'.location, last'.date>>)
       /\ (AfterTransportFailure /\ LookupStep(LastPair) /\ LastPair \notin CacheKeys(cache)) =>
             (last'.event = "miss" /\ IssuesOne(LastPair))
       /\ (AfterTransportFailure /\ LookupStep(LastPair) /\ LastPair \in CacheKeys(cache)) =>
             (last'.event = "hit" /\ last'.value = ResultOf(cache, LastPair))]_vars

\* A lookup has just failed in transport with the cache full of other
\* pairs, and no lookup of its pair waits or has ever returned.
C13_Witness ==
    /\ AfterTransportFailure
    /\ last.status = 500
    /\ Len(cache) = maxsize
    /\ LastPair \notin seen
    /\ pending[LastPair] = 0

\* The links of c whose key is not p, in their order of use.
Others(c, p) == SelectSeq(c, LAMBDA l : l.key # p)

\* C14: a hit leaves the set of cached keys and every stored value as they
\* were, at capacity too; only the order of use changes: the key hit becomes
\* the most recently used and the other keys keep their order.
C14_HitChangesOnlyRecency ==
    [][last'.event = "hit" =>
          LET p == <<last'.location, last'.date>>
          IN  /\ p \in CacheKeys(cache)
              /\ CacheKeys(cache') = CacheKeys(cache)
              /\ Len(cache') = Len(cache)
              /\ \A q \in CacheKeys(cache) : ResultOf(cache', q) = ResultOf(cache, q)
              /\ cache'[Len(cache')].key = p
              /\ Others(cache', p) = Others(cache, p)
              /\ last'.value = ResultOf(cache, p)
              /\ pending' = pending]_vars

\* A hit at capacity on the pair that was the least recently used, with
\* every pair ever returned still cached and nothing in flight.
C14_Witness ==
    /\ last.event = "hit"
    /\ Len(cache) = maxsize
    /\ cache[maxsize].key = LastPair
    /\ used[maxsize] = LastPair
    /\ seen = CacheKeys(cache)
    /\ Busy = 0

\* C15: a lookup that hits is answered in its own step, with no upstream
\* call; a lookup that misses is not answered in its step and leaves one
\* upstream call in flight; a call in flight ends only by the upstream's
\* response or a transport failure (no step times it out or cancels it), and
\* the lookup is answered in that step; when the upstream eventually ends
\* every call, a lookup that waits is eventually answered.
C15_BlocksUntilUpstreamEnds ==
    /\ [][/\ last'.event = "hit" =>
                (pending' = pending /\ last'.status = 200 /\ last'.value # NoValue)
          /\ last'.event = "miss" =>
                /\ IssuesOne(<<last'.location, last'.date>>)
                /\ last'.status = 0
                /\ last'.value = NoValue
          /\ \A p \in Requests :
                /\ pending'[p] < pending[p] =>
                      /\ last'.event \in {"return", "raise"}
                      /\ <<last'.location, last'.date>> = p
                      /\ EndsOne(p)
                      /\ last'.status \in {200, 500}
                /\ (pending[p] > 0 /\ last'.event \notin {"return", "raise"}) => pending'[p] >= pending[p]]_vars
    /\ \A p \in Requests : <>[](pending[p] = 0) \/ []<><<EndsOne(p)>>_vars

\* A lookup that waited has just been answered with the upstream's 404
\* record while every other worker still waits, for other pairs.
C15_Witness ==
    /\ last.event = "return"
    /\ last.response.status_code = 404
    /\ pending[LastPair] = 0
    /\ Busy = NumWorkers - 1
    /\ stored[LastPair] = NotFoundRecord

====
